---------------------------- MODULE Spec2Model ----------------------------
(***************************************************************************)
(* Model of src/app.js: the module top level constructs a Cesium.Viewer on *)
(* "cesiumContainer", force-hides its credit element and registers a click *)
(* handler on "satellitesButton".  The handler asks the engine to load a   *)
(* CZML file, hands the load's promise to viewer.dataSources.add and calls *)
(* viewer.camera.flyHome(0).                                               *)
(*                                                                         *)
(* Every statement of the script is one step.  JavaScript runs a handler   *)
(* to completion: while the handler is between two of its statements the   *)
(* event loop dispatches nothing else (EventLoopFree).                     *)
(***************************************************************************)
EXTENDS Integers, Sequences, FiniteSets, TLC

\* Bound of the model: how many clicks the user makes.
MaxClicks == 3

ClickIds == 1..MaxClicks

\* The eight widget options of the constructor call.
Toggles ==
  {"animation", "timeline", "fullscreenButton", "homeButton", "geocoder",
   "navigationHelpButton", "sceneModePicker", "baseLayerPicker"}

\* A constructor call that leaves out the homeButton line: the engine's
\* default for an option that is not given is "widget shown".
Options_HomeButtonLeftOut ==
  [shouldAnimate |-> TRUE, animation |-> FALSE, timeline |-> FALSE,
   fullscreenButton |-> FALSE, homeButton |-> TRUE, geocoder |-> FALSE,
   navigationHelpButton |-> FALSE, sceneModePicker |-> FALSE,
   baseLayerPicker |-> FALSE, creditContainer |-> "null"]

\* The options object literal passed to new Cesium.Viewer.
Options ==
  [shouldAnimate |-> TRUE, animation |-> FALSE, timeline |-> FALSE,
   fullscreenButton |-> FALSE, homeButton |-> FALSE, geocoder |-> FALSE,
   navigationHelpButton |-> FALSE, sceneModePicker |-> FALSE,
   baseLayerPicker |-> FALSE, creditContainer |-> "null"]

\* The resource the handler asks for, and the argument of flyHome.
ResourcePath == "../czml_data/simple.czml"
FlyHomeDuration == 0

\* A handler that resets the camera first and requests the load afterwards.
HandlerBody_ResetFirst == <<"flyHome", "load", "add">>

\* The calls of the handler body in evaluation order: the argument
\* Cesium.CzmlDataSource.load(...) is evaluated before the call of
\* viewer.dataSources.add that receives it, and flyHome(0) comes last.
HandlerBody == <<"load", "add", "flyHome">>

VARIABLES
  containerExists,      \* document has an element "cesiumContainer"
  buttonExists,         \* document has an element "satellitesButton"
  pc,                   \* position of the module top level
  viewer,               \* <<>> while undefined, else <<the display session>>
  creditDisplay,        \* viewer.cesiumWidget.creditContainer.style.display
  creditAfterConstruct, \* what the constructor left in creditDisplay
  listener,             \* the click handler is registered on the button
  handlerPc,            \* 0: handler not running, k: at HandlerBody[k]
  clicks,               \* click events dispatched to the handler so far
  status,               \* per click: state of the promise of its load
  addRequested,         \* clicks whose promise was given to dataSources.add
  overlays,             \* viewer.dataSources, in insertion order
  commands,             \* engine calls and load settlements, in order
  errors                \* errors the environment reported

vars ==
  <<containerExists, buttonExists, pc, viewer, creditDisplay,
    creditAfterConstruct, listener, handlerPc, clicks, status, addRequested,
    overlays, commands, errors>>

envVars == <<containerExists, buttonExists>>
initVars == <<pc, viewer, creditDisplay, creditAfterConstruct, listener>>
loadVars == <<status, addRequested, overlays, commands, errors>>

-----------------------------------------------------------------------------
\* Module top level

Init ==
  /\ containerExists \in BOOLEAN
  /\ buttonExists \in BOOLEAN
  /\ pc = "construct"
  /\ viewer = <<>>
  /\ creditDisplay = "absent"
  /\ creditAfterConstruct = "absent"
  /\ listener = FALSE
  /\ handlerPc = 0
  /\ clicks = 0
  /\ status = [i \in ClickIds |-> "none"]
  /\ addRequested = {}
  /\ overlays = <<>>
  /\ commands = <<>>
  /\ errors = {}

\* The engine builds a widget for every option that is not exactly false.
NewViewer(options) ==
  [widgets |-> [k \in Toggles |-> options[k] # FALSE],
   shouldAnimate |-> options.shouldAnimate]

\* const viewer = new Cesium.Viewer("cesiumContainer", {...}).  A missing
\* container makes the constructor throw, which ends the script.  What the
\* creditContainer option leaves in the credit element's display is the
\* engine's business: either outcome is possible.
Construct ==
  /\ pc = "construct"
  /\ IF containerExists
       THEN /\ viewer' = <<NewViewer(Options)>>
            /\ \E d \in {"", "none"} :
                 /\ creditDisplay' = d
                 /\ creditAfterConstruct' = d
            /\ pc' = "hideCredit"
            /\ UNCHANGED errors
       ELSE /\ pc' = "failed"
            /\ errors' = errors \cup {"DeveloperError"}
            /\ UNCHANGED <<viewer, creditDisplay, creditAfterConstruct>>
  /\ UNCHANGED <<envVars, listener, handlerPc, clicks, status, addRequested,
                 overlays, commands>>

\* A script without the style override.
HideCredit_Skipped ==
  /\ pc = "hideCredit"
  /\ pc' = "register"
  /\ UNCHANGED <<envVars, viewer, creditDisplay, creditAfterConstruct,
                 listener, handlerPc, clicks, loadVars>>

\* viewer.cesiumWidget.creditContainer.style.display = "none"
HideCredit ==
  /\ pc = "hideCredit"
  /\ creditDisplay' = "none"
  /\ pc' = "register"
  /\ UNCHANGED <<envVars, viewer, creditAfterConstruct, listener, handlerPc,
                 clicks, loadVars>>

\* A script that registers the handler on a target that always exists.
Register_AnyTarget ==
  /\ pc = "register"
  /\ listener' = TRUE
  /\ pc' = "ready"
  /\ UNCHANGED <<envVars, viewer, creditDisplay, creditAfterConstruct,
                 handlerPc, clicks, loadVars>>

\* document.getElementById("satellitesButton").addEventListener("click", f).
\* getElementById gives null for a missing button and the method call on
\* null throws, which ends the script.
Register ==
  /\ pc = "register"
  /\ IF buttonExists
       THEN /\ listener' = TRUE
            /\ pc' = "ready"
            /\ UNCHANGED errors
       ELSE /\ pc' = "failed"
            /\ errors' = errors \cup {"TypeError"}
            /\ UNCHANGED listener
  /\ UNCHANGED <<envVars, viewer, creditDisplay, creditAfterConstruct,
                 handlerPc, clicks, status, addRequested, overlays, commands>>

-----------------------------------------------------------------------------
\* The click handler

\* A listener registered with {once: true}.
ListenerActive_Once == listener /\ clicks = 0

\* addEventListener without options: the handler stays registered.
ListenerActive == listener

\* An event loop that dispatches events while the handler is running.
EventLoopFree_Preemptive == TRUE

\* The handler is a plain synchronous function: once entered it runs to
\* its end before the event loop dispatches another event or reaction.
EventLoopFree == handlerPc = 0

AtStatement(s) ==
  /\ handlerPc \in DOMAIN HandlerBody
  /\ HandlerBody[handlerPc] = s

Advance == IF handlerPc = Len(HandlerBody) THEN 0 ELSE handlerPc + 1

\* The user clicks the button and the event loop enters the handler.
Click ==
  /\ ListenerActive
  /\ EventLoopFree
  /\ clicks < MaxClicks
  /\ clicks' = clicks + 1
  /\ handlerPc' = 1
  /\ UNCHANGED <<envVars, initVars, loadVars>>

\* Cesium.CzmlDataSource.load("../czml_data/simple.czml"): the request is
\* issued and a pending promise comes back.
HandlerLoad ==
  /\ AtStatement("load")
  /\ status' = [status EXCEPT ![clicks] = "pending"]
  /\ commands' =
       Append(commands, [op |-> "load", id |-> clicks, path |-> ResourcePath])
  /\ handlerPc' = Advance
  /\ UNCHANGED <<envVars, initVars, clicks, addRequested, overlays, errors>>

\* viewer.dataSources.add(promise): the collection will take the data
\* source once the promise is fulfilled; the call itself returns at once.
HandlerAdd ==
  /\ AtStatement("add")
  /\ addRequested' = addRequested \cup {clicks}
  /\ handlerPc' = Advance
  /\ UNCHANGED <<envVars, initVars, clicks, status, overlays, commands,
                 errors>>

\* A handler without the flyHome line.
HandlerFlyHome_LeftOut ==
  /\ AtStatement("flyHome")
  /\ handlerPc' = Advance
  /\ UNCHANGED <<envVars, initVars, clicks, loadVars>>

\* viewer.camera.flyHome(0)
HandlerFlyHome ==
  /\ AtStatement("flyHome")
  /\ commands' =
       Append(commands,
              [op |-> "flyHome", id |-> clicks, duration |-> FlyHomeDuration])
  /\ handlerPc' = Advance
  /\ UNCHANGED <<envVars, initVars, clicks, status, addRequested, overlays,
                 errors>>

-----------------------------------------------------------------------------
\* Settlement of a load, dispatched by the event loop

\* A collection that refuses a data source whose path it already holds.
LoadResolved_Dedup(i) ==
  /\ EventLoopFree
  /\ status[i] = "pending"
  /\ status' = [status EXCEPT ![i] = "ok"]
  /\ overlays' =
       IF i \in addRequested
            /\ \A k \in DOMAIN overlays : overlays[k].path # ResourcePath
         THEN Append(overlays, [id |-> i, path |-> ResourcePath])
         ELSE overlays
  /\ commands' = Append(commands, [op |-> "settle", id |-> i, ok |-> TRUE])
  /\ UNCHANGED <<envVars, initVars, handlerPc, clicks, addRequested, errors>>

\* The load of click i succeeds: its promise is fulfilled and the reaction
\* dataSources.add attached appends the data source to the collection.
LoadResolved(i) ==
  /\ EventLoopFree
  /\ status[i] = "pending"
  /\ status' = [status EXCEPT ![i] = "ok"]
  /\ overlays' =
       IF i \in addRequested
         THEN Append(overlays, [id |-> i, path |-> ResourcePath])
         ELSE overlays
  /\ commands' = Append(commands, [op |-> "settle", id |-> i, ok |-> TRUE])
  /\ UNCHANGED <<envVars, initVars, handlerPc, clicks, addRequested, errors>>

\* A collection that appends an empty data source for a failed load.
LoadRejected_AddsPlaceholder(i) ==
  /\ EventLoopFree
  /\ status[i] = "pending"
  /\ status' = [status EXCEPT ![i] = "failed"]
  /\ overlays' = Append(overlays, [id |-> i, path |-> ""])
  /\ commands' = Append(commands, [op |-> "settle", id |-> i, ok |-> FALSE])
  /\ errors' = errors \cup {"unhandledrejection"}
  /\ UNCHANGED <<envVars, initVars, handlerPc, clicks, addRequested>>

\* A handler of failures that empties the collection.
LoadRejected_Clears(i) ==
  /\ EventLoopFree
  /\ status[i] = "pending"
  /\ status' = [status EXCEPT ![i] = "failed"]
  /\ overlays' = <<>>
  /\ commands' = Append(commands, [op |-> "settle", id |-> i, ok |-> FALSE])
  /\ errors' = errors \cup {"unhandledrejection"}
  /\ UNCHANGED <<envVars, initVars, handlerPc, clicks, addRequested>>

\* The load of click i fails: its promise is rejected, nothing is added,
\* and as the script attaches no rejection handler the environment reports
\* an unhandled rejection.
LoadRejected(i) ==
  /\ EventLoopFree
  /\ status[i] = "pending"
  /\ status' = [status EXCEPT ![i] = "failed"]
  /\ commands' = Append(commands, [op |-> "settle", id |-> i, ok |-> FALSE])
  /\ errors' = errors \cup {"unhandledrejection"}
  /\ UNCHANGED <<envVars, initVars, handlerPc, clicks, addRequested,
                 overlays>>

-----------------------------------------------------------------------------

Next ==
  \/ Construct
  \/ HideCredit
  \/ Register
  \/ Click
  \/ HandlerLoad
  \/ HandlerAdd
  \/ HandlerFlyHome
  \/ \E i \in ClickIds : LoadResolved(i)
  \/ \E i \in ClickIds : LoadRejected(i)

Spec == Init /\ [][Next]_vars

\* The script and a handler that was entered run on; the engine's loader
\* ends every request with success or failure and the event loop runs the
\* reaction.
FairSpec ==
  /\ Spec
  /\ WF_vars(Construct \/ HideCredit \/ Register)
  /\ WF_vars(HandlerLoad \/ HandlerAdd \/ HandlerFlyHome)
  /\ \A i \in ClickIds : WF_vars(LoadResolved(i) \/ LoadRejected(i))

-----------------------------------------------------------------------------
\* Observations on a state

Idle == handlerPc = 0
Initialized == pc = "ready"
Pending == {i \in ClickIds : status[i] = "pending"}
Succeeded == {i \in ClickIds : status[i] = "ok"}
Failed == {i \in ClickIds : status[i] = "failed"}
Settled == Succeeded \cup Failed

IndexOf(op, i) ==
  {k \in DOMAIN commands : commands[k].op = op /\ commands[k].id = i}
Issued(op, i) == IndexOf(op, i) # {}
At(op, i) == CHOOSE k \in IndexOf(op, i) : TRUE
Count(op) == Cardinality({k \in DOMAIN commands : commands[k].op = op})
LoadRequests == Count("load")
CameraResets == Count("flyHome")
OverlaysOf(i) == {k \in DOMAIN overlays : overlays[k].id = i}
AllHidden ==
  /\ Len(viewer) = 1
  /\ \A k \in Toggles : ~viewer[1].widgets[k]

-----------------------------------------------------------------------------
\* C1: when every load succeeds, then after N >= 1 clicks, with the handler
\* returned and no load pending, exactly N loads and exactly N camera
\* resets were issued and the collection holds exactly N overlays, one per
\* click, all of the same resource path.
C1_NClicksGiveNOverlays ==
  (Idle /\ clicks >= 1 /\ Pending = {} /\ Failed = {}) =>
    /\ LoadRequests = clicks
    /\ CameraResets = clicks
    /\ Len(overlays) = clicks
    /\ \A i \in 1..clicks : Cardinality(OverlaysOf(i)) = 1
    /\ \A k \in DOMAIN overlays : overlays[k].path = ResourcePath

C1_Witness ==
  /\ Idle /\ clicks >= 2 /\ Pending = {} /\ Failed = {}
  /\ Len(overlays) = clicks
  /\ CameraResets = clicks

C3_FailedLoadsLeaveNoOverlay ==
  (Initialized /\ Idle /\ Pending = {} /\ Succeeded = {}) =>
    /\ overlays = <<>>
    /\ errors \subseteq {"unhandledrejection"}
    /\ listener
    /\ Len(viewer) = 1
    /\ clicks < MaxClicks => ENABLED Click

C3_Witness ==
  /\ Initialized /\ Idle /\ Pending = {} /\ Succeeded = {}
  /\ clicks >= 2
  /\ Failed = 1..clicks
  /\ overlays = <<>>
  /\ errors = {"unhandledrejection"}

\* C4: with container and button present the script ends initialized, and
\* from then on every one of the eight widgets is hidden, the credit
\* element is suppressed and shouldAnimate is on.
C4_TogglesHidden ==
  (containerExists /\ buttonExists
     /\ pc \notin {"construct", "hideCredit", "register"}) =>
    /\ Initialized
    /\ AllHidden
    /\ creditDisplay = "none"
    /\ viewer[1].shouldAnimate

C4_Witness ==
  /\ Initialized /\ AllHidden /\ viewer[1].shouldAnimate
  /\ clicks >= 1 /\ Len(overlays) >= 1

\* C5: once the override has run, the credit element's display is "none",
\* whatever the constructor left there, and it stays "none".
C5_CreditForcedHidden ==
  (Len(viewer) = 1 /\ pc # "hideCredit") => creditDisplay = "none"

C5_Witness ==
  /\ Initialized
  /\ creditAfterConstruct = ""
  /\ creditDisplay = "none"
  /\ Settled # {}

\* C6: after initialization, in every state between handler runs, the
\* handler is registered and a click is enabled (up to the bound on
\* clicks), and every click handled so far issued one load and one reset.
C6_ClickAlwaysEnabled ==
  (Initialized /\ Idle) =>
    /\ listener
    /\ clicks < MaxClicks => ENABLED Click
    /\ \A i \in 1..clicks :
         /\ Cardinality(IndexOf("load", i)) = 1
         /\ Cardinality(IndexOf("flyHome", i)) = 1

C6_Witness ==
  /\ Initialized /\ Idle
  /\ Succeeded # {} /\ Failed # {}
  /\ Len(overlays) >= 1
  /\ ENABLED Click

\* C7: with the container or the button missing, no handler is ever
\* registered, no click is handled, no command is issued, the collection
\* stays empty and initialization never completes; with the container
\* missing there is no display session.
C7_MissingElementIsFatal ==
  (~containerExists \/ ~buttonExists) =>
    /\ ~listener
    /\ ~Initialized
    /\ ~ENABLED Click
    /\ clicks = 0
    /\ commands = <<>>
    /\ overlays = <<>>
    /\ ~containerExists => viewer = <<>>
    /\ pc = "failed" => ~ENABLED Next

C7_Witness ==
  /\ pc = "failed"
  /\ containerExists /\ ~buttonExists
  /\ Len(viewer) = 1
  /\ errors = {"TypeError"}

\* C8 as stated: the load and the reset of a click race, so wherever a load
\* is pending and the reset of its click is not yet issued, the load's
\* completion can be processed first.
C8_LoadMayCompleteBeforeReset ==
  \A i \in ClickIds :
    (i \in Pending /\ ~Issued("flyHome", i)) =>
      ENABLED (LoadResolved(i) \/ LoadRejected(i))

\* C8 amended: the reset of a click is always issued before the load of
\* that click completes.
C8_ResetPrecedesCompletion ==
  \A i \in ClickIds :
    Issued("settle", i) =>
      /\ Issued("flyHome", i)
      /\ At("flyHome", i) < At("settle", i)

C8_Witness ==
  \E i \in ClickIds :
    /\ Issued("settle", i)
    /\ i \in Succeeded
    /\ At("flyHome", i) < At("settle", i)

\* C9: a handler run is atomic and ordered: the load request of a click is
\* directly followed by the reset of that click (no settlement and no
\* command of another click in between), the commands of a click come
\* before those of any later click, nothing settles while the handler
\* runs, and between handler runs loads issued = resets issued = clicks.
C9_HandlerAtomicAndOrdered ==
  /\ \A i \in ClickIds :
       /\ Issued("flyHome", i) =>
            /\ Issued("load", i)
            /\ At("flyHome", i) = At("load", i) + 1
       /\ (Issued("load", i) /\ ~Issued("flyHome", i)) =>
            /\ At("load", i) = Len(commands)
            /\ ~Idle /\ i = clicks
       /\ \A j \in ClickIds :
            (i < j /\ Issued("load", j)) =>
              /\ Issued("flyHome", i)
              /\ At("flyHome", i) < At("load", j)
  /\ Idle => (LoadRequests = clicks /\ CameraResets = clicks)

C9_Witness ==
  /\ Idle /\ clicks >= 2
  /\ 1 \in Pending
  /\ At("load", 1) = 1 /\ At("flyHome", 1) = 2
  /\ At("load", 2) = 3 /\ At("flyHome", 2) = 4

=============================================================================
